---- MODULE Spec2Model ----
(***************************************************************************)
(* A model of trackpy/feature.py: the single-image feature finder          *)
(* locate() with its stages local_maxima(), the mass/size pre-filter,      *)
(* refine() (centroid refinement followed by duplicate elimination), the   *)
(* post-filter and the top-N selection.                                    *)
(*                                                                         *)
(* Images are two-dimensional arrays of unsigned integers, indexed         *)
(* <<row, col>> = <<y, x>> from 0.  Feature positions are floats in the    *)
(* code; the model keeps them in fixed point, PosScale units per pixel.    *)
(* Result rows list the position in reversed axis order (x, y), as the     *)
(* code's final_coords[feat] = cm_i[..., ::-1].                            *)
(***************************************************************************)
EXTENDS Integers, Sequences, FiniteSets, TLC

(***************************************************************************)
(* Bounds of the model.                                                    *)
(***************************************************************************)
\* fixed-point resolution of positions: units per pixel
PosScale == 100
\* refine() called on at most this many refined rows
MaxFeatures == 3
\* largest y coordinate (in pixels) of a refined row handed to the deduplicator
DedupMaxY == 2

\* shape of the images handed to locate()
ImageRows == 5
ImageCols == 7
\* an image is a uniform background with at most this many drawn points
MaxPoints == 3
\* a call of locate() differs from BaseCall in at most this many arguments
MaxNonDefault == 2
\* interpolations of one feature that may leave a residual offset
MaxInexactShifts == 1
MaxRefinePoints == 2

(***************************************************************************)
(* Constants of the program.                                               *)
(***************************************************************************)
\* np.iinfo(np.uint8).max, the gamut of the images
DtypeMax == 255
\* locate(percentile=64)
DefaultPercentile == 64
\* locate(minmass=100.)
DefaultMinmass == 100
\* locate(max_iterations=10)
DefaultMaxIterations == 10
\* SHIFT_THRESH = 0.6, in tenths
SHIFT_THRESH == 6
\* GOOD_ENOUGH_THRESH = 0.005 of _refine, in thousandths
GOOD_ENOUGH_THRESH == 5
\* GOOD_ENOUGH_THRESH = 0.01 of _numba_refine, in thousandths
NUMBA_GOOD_ENOUGH_THRESH == 10

\* None, the absent value of an optional numeric argument
None == -1
SIZE_COLUMN_INDEX == 3
\* the float nan, as a coordinate no position of the image has
NaN == -1000000

\* the other input alphabets of the deduplicator
DedupXs == {0, 1}
DedupMasses == {1, 2}
\* separation vectors in image axis order <<s_y, s_x>>
DedupSeparations == {<<2, 2>>, <<5, 2>>, <<0, 2>>}

VARIABLES
    pc,          \* position in the code
    results,     \* refine(): the results array, a sequence of rows
    separation,  \* refine(): the separation argument, in image axis order
    input,       \* the rows of results when duplicate elimination started
    raw_image,   \* locate(): the image argument, [<<row, col>> -> pixel]
    arg,         \* locate(): the other arguments of the call
    image,       \* locate(): the processed image the stages work on
    image_dtype, \* image.dtype
    radius,      \* locate(): radius, <<r_y, r_x>>
    margin,      \* locate(): margin, <<m_y, m_x>>
    characterize,\* locate(): characterize, off for an anisotropic diameter
    coords,      \* the candidates: local maxima, then the pre-filtered ones
    warned,      \* the warnings emitted so far, in order
    ret,         \* what locate() returned or raised
    feat,        \* _refine / _numba_refine: index of the feature in work
    coord,       \* its coord, <<y, x>> in fixed point
    rect,        \* the integer anchor <<y, x>> of the neighbourhood slice
    nb,          \* summary of its neighbourhood array
    allow_moves, \* its allow_moves flag
    iteration,   \* iterations of the refinement loop done for it
    cm_i         \* its centroid in image coordinates, <<y, x>> in fixed point

dedupVars == <<results, separation, input>>

callVars == <<raw_image, arg>>

setupVars == <<image, image_dtype, radius, margin, characterize>>

featVars == <<feat, coord, rect, nb, allow_moves, iteration, cm_i>>

vars == <<pc, results, separation, input, raw_image, arg, image, image_dtype, radius, margin,
          characterize, coords, warned, ret, feat, coord, rect, nb, allow_moves,
          iteration, cm_i>>

\* locate() has neither returned nor raised
NotReturned == [kind |-> "none"]

\* the locals of locate() before it has set them
SetupIdle ==
    /\ image = <<>> /\ image_dtype = "unset"
    /\ radius = <<>> /\ margin = <<>> /\ characterize = FALSE

\* the summary of a neighbourhood array N: mass = N.sum(), r2 = (R2 * N).sum(),
\* and the offset of its centre of mass from the mask centre on axis k,
\* cm_n[k] - radius[k] = m[k] / den; shifted counts the interpolations applied
NoNeighbourhood == [mass |-> 0, m |-> <<0, 0>>, den |-> 1, r2 |-> 0, shifted |-> 0]

\* no feature is being refined
FeatIdle ==
    /\ feat = 0 /\ coord = <<0, 0>> /\ rect = <<0, 0>> /\ nb = NoNeighbourhood
    /\ allow_moves = FALSE /\ iteration = 0 /\ cm_i = <<0, 0>>

(***************************************************************************)
(* Helpers                                                                 *)
(***************************************************************************)
Abs(n) == IF n < 0 THEN -n ELSE n

Square(n) == n * n

\* list(reversed(separation))
Reversed(s) == [k \in 1..Len(s) |-> s[Len(s) + 1 - k]]

\* np.all(np.greater(separation, 0))
AllGreaterZero(s) == \A k \in 1..Len(s) : s[k] > 0

(***************************************************************************)
(* Duplicate elimination of refine(), feature.py lines 176-198.            *)
(***************************************************************************)
\* Euclidean distance of two rows after positions = results[:, :2] /
\* list(reversed(separation)); the squared distance d2 is a fraction
\* ScaledDist2Num / ScaledDist2Den.
ScaledDist2Num(p, q, sep) ==
    LET rs == Reversed(sep)
    IN  Square((p.x - q.x) * rs[2]) + Square((p.y - q.y) * rs[1])

ScaledDist2Den(sep) ==
    LET rs == Reversed(sep)
    IN  Square(PosScale * rs[1] * rs[2])

\* mutant: the radius of the pair query is taken as a strict bound and halved
WithinQueryRadiusHalved(p, q, sep) ==
    4 * ScaledDist2Num(p, q, sep) < ScaledDist2Den(sep)

\* cKDTree.query_pairs(1) reports the pairs whose distance is at most 1; a
\* distance to a nan position compares false
WithinQueryRadius(p, q, sep) ==
    /\ NaN \notin {p.x, p.y, q.x, q.y}
    /\ ScaledDist2Num(p, q, sep) <= ScaledDist2Den(sep)

\* duplicates = cKDTree(positions, 30).query_pairs(1): pairs <<i, j>>, i < j
query_pairs(rows, sep) ==
    {pr \in (1..Len(rows)) \X (1..Len(rows)) :
        /\ pr[1] < pr[2]
        /\ WithinQueryRadius(rows[pr[1]], rows[pr[2]], sep)}

\* np.sum(positions.take(pair, 0), 1) of one row, times the positive factor
\* PosScale * s_x * s_y: x / s_x + y / s_y
PositionSum(p, sep) ==
    LET rs == Reversed(sep)
    IN  p.x * rs[2] + p.y * rs[1]

\* mutant: the brighter feature of a pair is dropped
DimmerAsArgmax(rows, pr, sep) ==
    LET a == rows[pr[1]]
        b == rows[pr[2]]
    IN  IF a.mass = b.mass
        THEN IF PositionSum(a, sep) <= PositionSum(b, sep) THEN pr[1] ELSE pr[2]
        ELSE IF a.mass >= b.mass THEN pr[1] ELSE pr[2]

\* mutant: on equal mass the feature with the larger sum is dropped
DimmerTieLargerSum(rows, pr, sep) ==
    LET a == rows[pr[1]]
        b == rows[pr[2]]
    IN  IF a.mass = b.mass
        THEN IF PositionSum(a, sep) >= PositionSum(b, sep) THEN pr[1] ELSE pr[2]
        ELSE IF a.mass <= b.mass THEN pr[1] ELSE pr[2]

\* pair[dimmer]: on equal mass np.argsort(sums)[0], the smaller sum and the
\* first of the pair when the sums are equal too; otherwise np.argmin(mass)
Dimmer(rows, pr, sep) ==
    LET a == rows[pr[1]]
        b == rows[pr[2]]
    IN  IF a.mass = b.mass
        THEN IF PositionSum(a, sep) <= PositionSum(b, sep) THEN pr[1] ELSE pr[2]
        ELSE IF a.mass <= b.mass THEN pr[1] ELSE pr[2]

\* mutant: both features of a pair are collected, not pair[dimmer]
to_drop_pairs(rows, sep) == UNION {{pr[1], pr[2]} : pr \in query_pairs(rows, sep)}

\* the indices collected in to_drop by the loop over the pairs
to_drop(rows, sep) == {Dimmer(rows, pr, sep) : pr \in query_pairs(rows, sep)}

\* the positions of rows that np.delete(results, to_drop, 0) keeps
RECURSIVE Kept(_, _, _)
Kept(rows, drop, i) ==
    IF i > Len(rows)
    THEN <<>>
    ELSE IF i \in drop
         THEN Kept(rows, drop, i + 1)
         ELSE <<rows[i]>> \o Kept(rows, drop, i + 1)

\* np.delete(results, to_drop, 0)
Delete(rows, drop) == Kept(rows, drop, 1)

\* if np.all(np.greater(separation, 0)): enter the loop, else return results
DedupGuard ==
    /\ pc = "dedup_check"
    /\ pc' = IF AllGreaterZero(separation) THEN "dedup_loop" ELSE "refine_return"
    /\ UNCHANGED <<results, separation, input>>
    /\ UNCHANGED <<callVars, setupVars, coords, warned, ret, featVars>>

\* one pass of the while loop that finds duplicates and deletes them
DedupPass ==
    /\ pc = "dedup_loop"
    /\ query_pairs(results, separation) # {}
    /\ results' = Delete(results, to_drop(results, separation))
    /\ UNCHANGED <<pc, separation, input>>
    /\ UNCHANGED <<callVars, setupVars, coords, warned, ret, featVars>>

\* mutant: the loop is left after the first look, pairs or not
DedupBreakEarly ==
    /\ pc = "dedup_loop"
    /\ pc' = "refine_return"
    /\ UNCHANGED <<results, separation, input>>
    /\ UNCHANGED <<callVars, setupVars, coords, warned, ret, featVars>>

\* if len(duplicates) == 0: break
DedupBreak ==
    /\ pc = "dedup_loop"
    /\ query_pairs(results, separation) = {}
    /\ pc' = "refine_return"
    /\ UNCHANGED <<results, separation, input>>
    /\ UNCHANGED <<callVars, setupVars, coords, warned, ret, featVars>>

(***************************************************************************)
(* Specification of refine()'s duplicate elimination on any refined rows.  *)
(***************************************************************************)
DedupRows ==
    [x : {PosScale * c : c \in DedupXs},
     y : {PosScale * c : c \in 0..DedupMaxY},
     mass : DedupMasses]

\* row k of the results array; id is the row's index in the input
RowList(n) == [1..n -> DedupRows]

Tagged(f) == [k \in DOMAIN f |-> [id |-> k, x |-> f[k].x, y |-> f[k].y, mass |-> f[k].mass]]

InitDedup ==
    /\ pc = "dedup_check"
    /\ separation \in DedupSeparations
    /\ \E n \in 0..MaxFeatures : \E f \in RowList(n) : results = Tagged(f)
    /\ input = results
    /\ raw_image = <<>> /\ arg = <<>>
    /\ SetupIdle
    /\ coords = <<>> /\ warned = <<>> /\ ret = NotReturned
    /\ FeatIdle

NextDedup == DedupGuard \/ DedupPass \/ DedupBreak

SpecDedup == InitDedup /\ [][NextDedup]_vars

(***************************************************************************)
(* The whole while loop of lines 179-198 as a function of the rows, used   *)
(* to compare runs of refine() on reordered rows.                          *)
(***************************************************************************)
RECURSIVE DedupLoop(_, _)
DedupLoop(rows, sep) ==
    IF query_pairs(rows, sep) = {}
    THEN rows
    ELSE DedupLoop(Delete(rows, to_drop(rows, sep)), sep)

\* lines 177-200: what refine() returns for the refined rows
RefineReturn(rows, sep) ==
    IF AllGreaterZero(sep) THEN DedupLoop(rows, sep) ELSE rows

(***************************************************************************)
(* Vocabulary of the claims about duplicate elimination.                   *)
(***************************************************************************)
Range(f) == {f[k] : k \in DOMAIN f}

Ids(rows) == {rows[k].id : k \in DOMAIN rows}

\* a feature row without its bookkeeping index
Feature(r) == [x |-> r.x, y |-> r.y, mass |-> r.mass]

FeatureSet(rows) == {Feature(rows[k]) : k \in DOMAIN rows}

Orderings(n) == {f \in [1..n -> 1..n] : \A a, b \in 1..n : f[a] = f[b] => a = b}

Permuted(rows, f) == [k \in DOMAIN rows |-> rows[f[k]]]

\* sum_k ((p_k - q_k) / s_k)^2 as a fraction, s = <<s_y, s_x>>
SepDist2Num(p, q, s) == Square((p.x - q.x) * s[1]) + Square((p.y - q.y) * s[2])

SepDist2Den(s) == Square(PosScale * s[1] * s[2])

DedupReturned == pc = "refine_return" /\ AllGreaterZero(separation)

\* C1: when refine() returns (separation all positive), every two distinct
\* returned features are at a separation-scaled distance of at least 1.
C1_Separated ==
    DedupReturned =>
        \A i, j \in DOMAIN results :
            i # j => SepDist2Num(results[i], results[j], separation) >= SepDist2Den(separation)

\* C1 witness: duplicates were removed and at least two features are returned
C1_Witness ==
    /\ DedupReturned
    /\ Len(results) >= 2
    /\ Len(results) < Len(input)

\* q lies within separation of p (distance at most the separation)
WithinSeparation(p, q, s) == SepDist2Num(p, q, s) <= SepDist2Den(s)

\* p is brighter than every other input feature within separation of it
Brightest(p) ==
    \A k \in DOMAIN input :
        (input[k].id # p.id /\ WithinSeparation(p, input[k], separation))
            => p.mass > input[k].mass

\* C2: a pass drops the dimmer feature of every close pair of unequal mass,
\* and a feature brighter than everything within separation of it is in the
\* output of refine().
C2_StepDropsDimmer ==
    pc = "dedup_loop" =>
        \A i, j \in DOMAIN results :
            (/\ i # j
             /\ WithinSeparation(results[i], results[j], separation)
             /\ results[i].mass < results[j].mass)
                => results[i].id \notin Ids(results')

C2_BrightestKept ==
    DedupReturned =>
        \A k \in DOMAIN input : Brightest(input[k]) => input[k].id \in Ids(results)

CoordSum(p) == p.x + p.y

\* the sum of the coordinates of the position divided by the separation,
\* x / s_x + y / s_y, times s_x * s_y
ScaledCoordSum(p, s) == p.x * s[1] + p.y * s[2]

EqualMassPair(i, j) ==
    /\ i # j
    /\ WithinSeparation(results[i], results[j], separation)
    /\ results[i].mass = results[j].mass

\* C3 as stated: of a close pair of equal mass, a pass drops the feature
\* whose unscaled position has the smaller sum of coordinates.
C3_StepUnscaled ==
    pc = "dedup_loop" =>
        \A i, j \in DOMAIN results :
            (EqualMassPair(i, j) /\ CoordSum(results[i]) < CoordSum(results[j]))
                => results[i].id \notin Ids(results')

C3_StepScaled ==
    pc = "dedup_loop" =>
        \A i, j \in DOMAIN results :
            EqualMassPair(i, j) =>
                /\ ScaledCoordSum(results[i], separation) < ScaledCoordSum(results[j], separation)
                      => results[i].id \notin Ids(results')
                /\ (ScaledCoordSum(results[i], separation) = ScaledCoordSum(results[j], separation)
                        /\ i < j)
                      => results[i].id \notin Ids(results')

C4_PermutationInvariant ==
    pc = "refine_return" =>
        \A f \in Orderings(Len(input)) :
            FeatureSet(RefineReturn(Permuted(input, f), separation)) = FeatureSet(results)

(***************************************************************************)
(* Images and the arguments of locate().                                   *)
(***************************************************************************)
\* raw_image.shape
Shape == <<ImageRows, ImageCols>>

Pixels == (0..(ImageRows - 1)) \X (0..(ImageCols - 1))

\* the pixels in the scan order of the array
PixelSeq ==
    [k \in 1..(ImageRows * ImageCols) |->
        <<(k - 1) \div ImageCols, (k - 1) % ImageCols>>]

\* np.ones(dims) or np.zeros(dims) with points drawn into it, as the tests do
Backgrounds == {0, 1}
PointValues == {15, 51}
DrawRows == {2}
DrawCols == {0, 1, 2, 3, 5}

Images ==
    LET DrawPixels == {p \in Pixels : p[1] \in DrawRows /\ p[2] \in DrawCols}
        PointSets == {S \in SUBSET DrawPixels : Cardinality(S) <= MaxPoints}
    IN  UNION {{[p \in Pixels |-> IF p \in S THEN f[p] ELSE bg] : f \in [S -> PointValues]} :
                    bg \in Backgrounds, S \in PointSets}

\* the dtypes of the images: np.issubdtype(dtype, np.integer) or not
IntegerTypes == {"uint8"}
FloatTypes == {"float64"}

\* locate(image, 3, preprocess=False, engine='python'): the other arguments
\* at their defaults; separation <<>> stands for separation=None
BaseCall ==
    [diameter |-> <<3, 3>>, minmass |-> DefaultMinmass, maxsize |-> None,
     separation |-> <<>>, smoothing_size |-> <<>>,
     percentile |-> DefaultPercentile, topn |-> None,
     dtype |-> "uint8", invert |-> FALSE, max_iterations |-> DefaultMaxIterations,
     filter_before |-> TRUE, filter_after |-> TRUE, characterize |-> TRUE,
     engine |-> "python", frame_no |-> None]

NonDefault(c) == Cardinality({f \in DOMAIN c : c[f] # BaseCall[f]})

Calls ==
    {c \in [diameter : {<<3, 3>>, <<5, 5>>, <<3, 5>>, <<4, 4>>, <<3, 4>>},
            minmass : {DefaultMinmass, 300},
            maxsize : {None, 1},
            separation : {<<>>, <<1, 1>>},
            smoothing_size : {<<>>},
            percentile : {DefaultPercentile},
            dtype : IntegerTypes,
            invert : BOOLEAN,
            topn : {None, 0, 1, 2},
            max_iterations : {DefaultMaxIterations, 1},
            filter_before : BOOLEAN,
            filter_after : BOOLEAN,
            characterize : BOOLEAN,
            engine : {"python", "numba", "unknown"},
            frame_no : {None, 0}] : NonDefault(c) <= MaxNonDefault}

(***************************************************************************)
(* Arithmetic on arrays.                                                   *)
(***************************************************************************)
RECURSIVE SumSeq(_)
SumSeq(q) == IF q = <<>> THEN 0 ELSE Head(q) + SumSeq(Tail(q))

RECURSIVE MaxSeq(_)
MaxSeq(q) ==
    IF Len(q) = 1
    THEN Head(q)
    ELSE LET t == MaxSeq(Tail(q)) IN IF Head(q) >= t THEN Head(q) ELSE t

Max2(a, b) == IF a >= b THEN a ELSE b

InImage(p) == p \in Pixels

\* raw_image ^ max_value on an integer image: the complement within the dtype
Invert(img) == [p \in Pixels |-> DtypeMax - img[p]]

\* scale_to_gamut(image, dtype): rescale to fill the gamut of the dtype
ScaleToGamut(img) ==
    LET top == MaxSeq([k \in DOMAIN PixelSeq |-> img[PixelSeq[k]]])
    IN  IF top = 0
        THEN img
        ELSE [p \in Pixels |-> (DtypeMax * img[p]) \div top]

(***************************************************************************)
(* masks.py: binary_mask and r_squared_mask.                               *)
(***************************************************************************)
\* the offsets <<dy, dx>> from the centre of the square of a radius, scan order
SquareOffsets(r) ==
    LET w == 2 * r[2] + 1
    IN  [k \in 1..((2 * r[1] + 1) * w) |->
            <<((k - 1) \div w) - r[1], ((k - 1) % w) - r[2]>>]

\* binary_mask(radius, 2): 1 where sum_k ((i_k - r_k) / r_k)^2 <= 1
InMask(r, o) == Square(o[1] * r[2]) + Square(o[2] * r[1]) <= Square(r[1] * r[2])

\* the offsets of the pixels of the mask, in scan order
MaskOffsets(r) == LET In(o) == InMask(r, o) IN SelectSeq(SquareOffsets(r), In)

\* r_squared_mask(radius, 2) at an offset
R2(o) == Square(o[1]) + Square(o[2])

Shifted(p, o) == <<p[1] + o[1], p[2] + o[2]>>

(***************************************************************************)
(* percentile_threshold() and local_maxima(), lines 21-70.                 *)
(***************************************************************************)
\* not_black = image[np.nonzero(image)], as the set of its pixels
NotBlack(img) == {p \in Pixels : img[p] # 0}

\* the k-th smallest value of not_black, k from 0
KthSmallest(img, k) ==
    LET nz == NotBlack(img)
    IN  CHOOSE v \in {img[p] : p \in nz} :
            /\ Cardinality({p \in nz : img[p] < v}) <= k
            /\ k < Cardinality({p \in nz : img[p] <= v})

\* 100 * np.percentile(not_black, percentile): the percentile interpolates
\* linearly between the order statistics around percentile / 100 * (n - 1)
percentile_threshold(img, percentile) ==
    LET at == percentile * (Cardinality(NotBlack(img)) - 1)
        lo == at \div 100
        fr == at % 100
        a == KthSmallest(img, lo)
        b == IF fr = 0 THEN a ELSE KthSmallest(img, lo + 1)
    IN  100 * a + fr * (b - a)

\* ndimage.grey_dilation(image, footprint=binary_mask(radius), mode='constant')
Dilation(img, r, p) ==
    LET offs == MaskOffsets(r)
    IN  MaxSeq([k \in DOMAIN offs |->
            IF InImage(Shifted(p, offs[k])) THEN img[Shifted(p, offs[k])] ELSE 0])

\* (image == dilation) & (image > threshold) at a pixel; threshold100 is
\* the threshold times 100
IsMaximum(img, r, threshold100, p) ==
    /\ 100 * img[p] > threshold100
    /\ img[p] = Dilation(img, r, p)

\* np.vstack(np.where((image == dilation) & (image > threshold))).T
Maxima(img, r, threshold100) ==
    LET IsMax(p) == IsMaximum(img, r, threshold100, p)
    IN  SelectSeq(PixelSeq, IsMax)

\* mutant: the lower edge of the margin is taken one pixel too far out
NearEdgeLowerOffByOne(p, m) ==
    \E k \in 1..2 : p[k] < m[k] - 1 \/ p[k] > Shape[k] - m[k] - 1

\* mutant: the upper edge of the margin is taken one pixel too far out
NearEdgeUpperOffByOne(p, m) ==
    \E k \in 1..2 : p[k] < m[k] \/ p[k] > Shape[k] - m[k]

\* near_edge = np.any((maxima < margin) | (maxima > (shape - margin - 1)), 1)
NearEdge(p, m) ==
    \E k \in 1..2 : p[k] < m[k] \/ p[k] > Shape[k] - m[k] - 1

\* maxima[~near_edge]
AwayFromEdge(maxima, m) ==
    LET Keep(p) == ~NearEdge(p, m) IN SelectSeq(maxima, Keep)

BlackWarning == "Image is completely black."
NoMaximaWarning == "Image contains no local maxima."
MarginWarning == "All local maxima were in the margins."

\* what local_maxima does: the coordinates returned, the warnings emitted
\* and the exception raised, if any
Found(cs, ws) == [coords |-> cs, warnings |-> ws, error |-> "none"]

Failed(exc) == [coords |-> <<>>, warnings |-> <<>>, error |-> exc]

\* mutant: no warning when every maximum is in the margins
LocalMaximaSilentMargins(img, dtype, r, percentile, m) ==
    IF NotBlack(img) = {}
    THEN Found(<<>>, <<BlackWarning>>)
    ELSE IF dtype \notin IntegerTypes
         THEN Failed("TypeError")
         ELSE LET maxima == Maxima(img, r, percentile_threshold(img, percentile))
              IN  IF maxima = <<>>
                  THEN Found(<<>>, <<NoMaximaWarning>>)
                  ELSE Found(AwayFromEdge(maxima, m), <<>>)

\* local_maxima(image, radius, percentile, margin) on an image of a dtype:
\* the black image returns at line 48, before the type is tested at line 51
local_maxima(img, dtype, r, percentile, m) ==
    IF NotBlack(img) = {}
    THEN Found(<<>>, <<BlackWarning>>)
    ELSE IF dtype \notin IntegerTypes
         THEN Failed("TypeError")
         ELSE LET maxima == Maxima(img, r, percentile_threshold(img, percentile))
                  kept == AwayFromEdge(maxima, m)
              IN  IF maxima = <<>>
                  THEN Found(<<>>, <<NoMaximaWarning>>)
                  ELSE Found(kept, IF kept = <<>> THEN <<MarginWarning>> ELSE <<>>)

(***************************************************************************)
(* Neighbourhoods: the masked square around an anchor and its moments.     *)
(***************************************************************************)
\* neighborhood = mask * image[rect], rect the square around the anchor a:
\* its sum, its first moments about the mask centre and its R2 moment.
\* _safe_center_of_mass returns the mask centre when the sum is 0.
Neighbourhood(img, r, a) ==
    LET offs == MaskOffsets(r)
        px(k) == img[Shifted(a, offs[k])]
        mass == SumSeq([k \in DOMAIN offs |-> px(k)])
    IN  [mass |-> mass,
         m |-> IF mass = 0
               THEN <<0, 0>>
               ELSE <<SumSeq([k \in DOMAIN offs |-> px(k) * offs[k][1]]),
                      SumSeq([k \in DOMAIN offs |-> px(k) * offs[k][2]])>>,
         den |-> IF mass = 0 THEN 1 ELSE mass,
         r2 |-> SumSeq([k \in DOMAIN offs |-> px(k) * R2(offs[k])]),
         shifted |-> 0]

\* estimate_mass(image, radius, coord)
estimate_mass(img, r, c) == Neighbourhood(img, r, c).mass

\* sqrt(r2 / mass) < maxsize; a division by zero gives nan, which compares false
SizeBelow(r2, mass, maxsize) == mass > 0 /\ r2 < maxsize * maxsize * mass

\* estimate_size(image, radius, coord, estimated_mass) < maxsize
EstimatedSizeBelow(img, r, c, maxsize) ==
    LET n == Neighbourhood(img, r, c) IN SizeBelow(n.r2, n.mass, maxsize)

\* division of a by b > 0 rounded towards zero
Trunc(a, b) == IF a >= 0 THEN a \div b ELSE -((-a) \div b)

\* off_center = cm_n - radius, in fixed point
OffCenter(n) == <<Trunc(n.m[1] * PosScale, n.den), Trunc(n.m[2] * PosScale, n.den)>>

\* np.all(np.abs(off_center) < GOOD_ENOUGH_THRESH)
GoodEnough(n) == \A k \in 1..2 : 1000 * Abs(n.m[k]) < GOOD_ENOUGH_THRESH * n.den

\* np.any(np.abs(off_center) > SHIFT_THRESH)
OffByMoreThanShift(n) == \E k \in 1..2 : 10 * Abs(n.m[k]) > SHIFT_THRESH * n.den

\* the whole-pixel step on axis k: +1 if off_center > SHIFT_THRESH, -1 if
\* off_center < -SHIFT_THRESH, else 0
Step(n, k) ==
    IF 10 * n.m[k] > SHIFT_THRESH * n.den THEN 1
    ELSE IF 10 * n.m[k] < -(SHIFT_THRESH * n.den) THEN -1 ELSE 0

\* np.clip(c, lo, hi) on one axis; the numba engine spells it out:
\* if c < lo: c = lo, then if c > hi: c = hi
Clip(c, lo, hi) ==
    LET raised == IF c < lo THEN lo ELSE c
    IN  IF raised > hi THEN hi ELSE raised

\* new_coord[off_center > SHIFT_THRESH] += 1; new_coord[off_center <
\* -SHIFT_THRESH] -= 1; new_coord = np.clip(new_coord, radius, upper_bound),
\* upper_bound = np.array(image.shape) - 1 - radius
Walked(a, n, r, shp) ==
    <<Clip(a[1] + Step(n, 1), r[1], shp[1] - 1 - r[1]),
      Clip(a[2] + Step(n, 2), r[2], shp[2] - 1 - r[2])>>

\* a size as np.array(image.shape, dtype=np.int16) holds it
Int16(n) == ((n + 32768) % 65536) - 32768

\* lines 344-362 of _numba_refine: the same step, clamped with
\* upper_bound = shape[dim] - radius - 1, shape being the int16 array of line 153
NumbaWalked(a, n, r, shp) ==
    <<Clip(a[1] + Step(n, 1), r[1], Int16(shp[1]) - r[1] - 1),
      Clip(a[2] + Step(n, 2), r[2], Int16(shp[2]) - r[2] - 1)>>

\* ndimage.shift(neighborhood, -off_center, order=2, mode='constant', cval=0)
\* is a spline interpolation outside this repository. Either it centres the
\* array exactly and keeps its sum, or (at most MaxInexactShifts times for a
\* feature) it is inexact: zero fill lowers the sum and the centre of mass
\* stays off on the last axis, by one fixed-point unit or, the spline
\* overshooting on a small sum, by a whole pixel.
ShiftOutcomes(n) ==
    {[n EXCEPT !.m = <<0, 0>>, !.den = PosScale, !.shifted = n.shifted + 1]}
    \cup (IF n.shifted < MaxInexactShifts
          THEN {[n EXCEPT !.mass = Max2(n.mass - 1, 0), !.m = <<0, off>>,
                          !.den = PosScale, !.shifted = n.shifted + 1] :
                    off \in {1, PosScale}}
          ELSE {})

ToFixed(a) == <<a[1] * PosScale, a[2] * PosScale>>

Plus(a, b) == <<a[1] + b[1], a[2] + b[2]>>

(***************************************************************************)
(* locate(), lines 511-592: parameters, image, local maxima.               *)
(***************************************************************************)
\* the result columns; all_columns has 'ep' joined on when characterizing
Columns(char) ==
    <<"x", "y", "mass">> \o (IF char THEN <<"size", "ecc", "signal">> ELSE <<>>)

AllColumns(char) == Columns(char) \o (IF char THEN <<"ep">> ELSE <<>>)

\* DataFrame(columns=all_columns)
EmptyTable(char) == [kind |-> "table", columns |-> AllColumns(char), rows |-> <<>>]

Raised(exc) == [kind |-> "raise", exc |-> exc]

ColorWarning == "I am interpreting the image as 2-dimensional."
PrefilterWarning == "No maxima survived mass- and size-based prefiltering."
FilterWarning == "No maxima survived mass- and size-based filtering."

\* margin = max(rad, sep // 2 - 1, sm // 2) on one axis
MarginOf(rad, sep, sm) == Max2(rad, Max2((sep \div 2) - 1, sm \div 2))

\* mutant: only the first axis of the diameter is tested
AllOddFirstAxis(d) == d[1] % 2 = 1

\* np.all([x & 1 for x in diameter])
AllOdd(d) == \A k \in 1..Len(d) : d[k] % 2 = 1

\* lines 512-587: validate the diameter, set the defaults, prepare the image.
\* The calls are made with preprocess=False, as in the tests: the image is a
\* copy of the raw image (line 558); invert is read at line 545 only, under
\* "if preprocess".
LocateSetup ==
    /\ pc = "locate"
    /\ IF ~AllOdd(arg.diameter)
       THEN /\ ret' = Raised("ValueError")
            /\ pc' = "done"
            /\ UNCHANGED <<setupVars, separation, warned>>
       ELSE LET rad == [k \in 1..2 |-> arg.diameter[k] \div 2]
                sep == IF arg.separation = <<>>
                       THEN [k \in 1..2 |-> arg.diameter[k] + 1]
                       ELSE arg.separation
                smoothing_size == IF arg.smoothing_size = <<>>
                                  THEN arg.diameter
                                  ELSE arg.smoothing_size
            IN  /\ radius' = rad
                /\ separation' = sep
                /\ characterize' = (arg.characterize /\ arg.diameter[1] = arg.diameter[2])
                /\ warned' = IF 3 \in Range(Shape) \/ 4 \in Range(Shape)
                             THEN <<ColorWarning>> ELSE <<>>
                /\ image' = ScaleToGamut(raw_image)
                /\ image_dtype' = arg.dtype
                /\ margin' = [k \in 1..2 |-> MarginOf(rad[k], sep[k], smoothing_size[k])]
                /\ pc' = "local_maxima"
                /\ UNCHANGED ret
    /\ UNCHANGED <<results, input, callVars, coords, featVars>>

(***************************************************************************)
(* Specification of the parameter derivation of locate(), lines 510-587,   *)
(* on any diameter, separation and smoothing_size.                         *)
(***************************************************************************)
SetupDiameters == {1, 2, 3, 5, 7}
SetupSizes == {1, 3, 4, 6}

\* validate_tuple: a vector per axis, None apart
SetupVectors(S) == {<<>>} \cup (S \X S)

SetupCalls ==
    {[BaseCall EXCEPT !.diameter = d, !.separation = sep, !.smoothing_size = sm] :
        d \in SetupDiameters \X SetupDiameters,
        sep \in SetupVectors(SetupSizes),
        sm \in SetupVectors(SetupSizes)}

InitSetup ==
    /\ pc = "locate"
    /\ raw_image = [p \in Pixels |-> IF p = <<2, 3>> THEN 51 ELSE 0]
    /\ arg \in SetupCalls
    /\ results = <<>> /\ separation = <<>> /\ input = <<>>
    /\ SetupIdle
    /\ coords = <<>> /\ warned = <<>> /\ ret = NotReturned
    /\ FeatIdle

NextSetup == LocateSetup

SpecSetup == InitSetup /\ [][NextSetup]_vars

\* lines 588-592: coords = local_maxima(...); return empty when there is none
LocateMaxima ==
    /\ pc = "local_maxima"
    /\ LET lm == local_maxima(image, image_dtype, radius, arg.percentile, margin)
       IN  /\ warned' = warned \o lm.warnings
           /\ coords' = lm.coords
           /\ IF lm.error # "none"
              THEN ret' = Raised(lm.error) /\ pc' = "done"
              ELSE IF Len(lm.coords) = 0
                   THEN ret' = EmptyTable(characterize) /\ pc' = "done"
                   ELSE ret' = ret /\ pc' = "prefilter"
    /\ UNCHANGED <<dedupVars, callVars, setupVars, featVars>>

\* lines 596-612: the pre-filter on estimated mass and size
Qualified(c) ==
    /\ estimate_mass(image, radius, c) > arg.minmass
    /\ arg.maxsize # None => EstimatedSizeBelow(image, radius, c, arg.maxsize)

LocatePrefilter ==
    /\ pc = "prefilter"
    /\ LET kept == IF arg.filter_before THEN SelectSeq(coords, Qualified) ELSE coords
       IN  /\ coords' = kept
           /\ IF Len(kept) = 0
              THEN /\ warned' = Append(warned, PrefilterWarning)
                   /\ ret' = EmptyTable(characterize)
                   /\ pc' = "done"
              ELSE /\ UNCHANGED <<warned, ret>>
                   /\ pc' = "refine"
    /\ UNCHANGED <<dedupVars, callVars, setupVars, featVars>>

(***************************************************************************)
(* refine(), lines 122-174: the engines.                                   *)
(***************************************************************************)
\* one row of the results array: x, y (reversed image coordinates), mass, and
\* the R2 moment from which the size column is sqrt(r2 / mass); id is the
\* index of the feature in coords
Row(f, c, n, sig) ==
    [id |-> f, x |-> c[2], y |-> c[1], mass |-> n.mass, r2 |-> n.r2, signal |-> sig]

\* raw_neighborhood = mask*raw_image[rect]; signal = raw_neighborhood.max()
PySignal(raw, r, a) ==
    LET offs == MaskOffsets(r)
    IN  MaxSeq([k \in DOMAIN offs |-> raw[Shifted(a, offs[k])]])

\* lines 405-418: over the pixels of the mask in scan order, from the k-th on,
\* if raw_px > signal_: signal_ = px, px being the pixel of the processed image
RECURSIVE NumbaSignalFrom(_, _, _, _, _, _)
NumbaSignalFrom(raw, img, a, offs, k, signal_) ==
    IF k > Len(offs)
    THEN signal_
    ELSE LET p == Shifted(a, offs[k])
         IN  NumbaSignalFrom(raw, img, a, offs, k + 1,
                             IF raw[p] > signal_ THEN img[p] ELSE signal_)

NumbaSignal(raw, img, r, a) == NumbaSignalFrom(raw, img, a, MaskOffsets(r), 1, 0)

\* if engine == 'python' ... elif engine == 'numba' ...
RefineDispatch ==
    /\ pc = "refine"
    /\ IF arg.engine = "python"
       THEN /\ pc' = "py_feature" /\ feat' = 1 /\ results' = <<>>
            /\ UNCHANGED ret
       ELSE IF arg.engine = "numba"
            THEN IF radius[1] # radius[2]
                 THEN /\ ret' = Raised("NotImplementedError") /\ pc' = "done"
                      /\ UNCHANGED <<feat, results>>
                 ELSE /\ pc' = "nb_feature" /\ feat' = 1 /\ results' = <<>>
                      /\ UNCHANGED ret
            ELSE /\ ret' = Raised("ValueError") /\ pc' = "done"
                 /\ UNCHANGED <<feat, results>>
    /\ UNCHANGED <<separation, input, callVars, setupVars, coords, warned>>
    /\ UNCHANGED <<coord, rect, nb, allow_moves, iteration, cm_i>>

\* _refine, lines 225-232: the neighbourhood of the next feature
PyFeature ==
    /\ pc = "py_feature"
    /\ rect' = coords[feat]
    /\ coord' = ToFixed(coords[feat])
    /\ nb' = Neighbourhood(image, radius, coords[feat])
    /\ cm_i' = Plus(coord', OffCenter(nb'))
    /\ allow_moves' = TRUE
    /\ iteration' = 0
    /\ pc' = "py_loop"
    /\ UNCHANGED <<dedupVars, callVars, setupVars, coords, warned, ret, feat>>

\* lines 237-238: break, accurate enough
PyAccurate ==
    /\ pc = "py_loop"
    /\ iteration < arg.max_iterations
    /\ GoodEnough(nb)
    /\ pc' = "py_store"
    /\ UNCHANGED <<dedupVars, callVars, setupVars, coords, warned, ret, featVars>>

\* mutant: the square is moved whether or not moves are still allowed
PyMoveAfterInterpolation ==
    /\ pc = "py_loop"
    /\ iteration < arg.max_iterations
    /\ ~GoodEnough(nb)
    /\ OffByMoreThanShift(nb)
    /\ rect' = Walked(rect, nb, radius, Shape)
    /\ nb' = Neighbourhood(image, radius, rect')
    /\ coord' = ToFixed(rect')
    /\ cm_i' = Plus(coord', OffCenter(nb'))
    /\ iteration' = iteration + 1
    /\ UNCHANGED <<dedupVars, callVars, setupVars, coords, warned, ret>>
    /\ UNCHANGED <<pc, feat, allow_moves>>

\* mutant: refine() hands its coords argument on without the copy of line
\* 131, so that the += 1 and -= 1 of lines 244-245 write through to it
PyMoveInPlace ==
    /\ pc = "py_loop"
    /\ iteration < arg.max_iterations
    /\ ~GoodEnough(nb)
    /\ OffByMoreThanShift(nb) /\ allow_moves
    /\ rect' = Walked(rect, nb, radius, Shape)
    /\ nb' = Neighbourhood(image, radius, rect')
    /\ coord' = ToFixed(rect')
    /\ cm_i' = Plus(coord', OffCenter(nb'))
    /\ iteration' = iteration + 1
    /\ coords' = IF rect = coords[feat]
                 THEN [coords EXCEPT ![feat] = <<rect[1] + Step(nb, 1),
                                                 rect[2] + Step(nb, 2)>>]
                 ELSE coords
    /\ UNCHANGED <<dedupVars, callVars, setupVars, warned, ret>>
    /\ UNCHANGED <<pc, feat, allow_moves>>

\* lines 241-251 and 262-265: move the square by whole pixels
PyMove ==
    /\ pc = "py_loop"
    /\ iteration < arg.max_iterations
    /\ ~GoodEnough(nb)
    /\ OffByMoreThanShift(nb) /\ allow_moves
    /\ rect' = Walked(rect, nb, radius, Shape)
    /\ nb' = Neighbourhood(image, radius, rect')
    /\ coord' = ToFixed(rect')
    /\ cm_i' = Plus(coord', OffCenter(nb'))
    /\ iteration' = iteration + 1
    /\ UNCHANGED <<dedupVars, callVars, setupVars, coords, warned, ret>>
    /\ UNCHANGED <<pc, feat, allow_moves>>

\* lines 254-265: interpolate, and disallow whole-pixel moves from now on
PyInterpolate ==
    /\ pc = "py_loop"
    /\ iteration < arg.max_iterations
    /\ ~GoodEnough(nb)
    /\ ~(OffByMoreThanShift(nb) /\ allow_moves)
    /\ nb' \in ShiftOutcomes(nb)
    /\ coord' = Plus(coord, OffCenter(nb))
    /\ cm_i' = Plus(coord', OffCenter(nb'))
    /\ allow_moves' = FALSE
    /\ iteration' = iteration + 1
    /\ UNCHANGED <<dedupVars, callVars, setupVars, coords, warned, ret>>
    /\ UNCHANGED <<pc, feat, rect>>

\* mutant: reaching the cap without convergence is an error
PyIterationsDoneRaises ==
    /\ pc = "py_loop"
    /\ iteration >= arg.max_iterations
    /\ pc' = "done"
    /\ ret' = Raised("RuntimeError")
    /\ UNCHANGED <<dedupVars, callVars, setupVars, coords, warned, featVars>>

\* line 233: range(max_iterations) is exhausted
PyIterationsDone ==
    /\ pc = "py_loop"
    /\ iteration >= arg.max_iterations
    /\ pc' = "py_store"
    /\ UNCHANGED <<dedupVars, callVars, setupVars, coords, warned, ret, featVars>>

\* lines 267-293: store the final coordinates and the characterization; after
\* the last feature the rows are the results handed to the duplicate search
PyStore ==
    /\ pc = "py_store"
    /\ results' = Append(results,
                    IF characterize
                    THEN Row(feat, cm_i, nb, PySignal(raw_image, radius, rect))
                    ELSE Row(feat, cm_i, [nb EXCEPT !.r2 = 0], 0))
    /\ IF feat = Len(coords)
       THEN pc' = "dedup_check" /\ input' = results' /\ feat' = feat
       ELSE pc' = "py_feature" /\ input' = input /\ feat' = feat + 1
    /\ UNCHANGED <<separation, callVars, setupVars, coords, warned, ret>>
    /\ UNCHANGED <<coord, rect, nb, allow_moves, iteration, cm_i>>

\* if abs(off_center[dim]) > GOOD_ENOUGH_THRESH: break, on no axis
NumbaGoodEnough(n) ==
    \A k \in 1..2 : ~(1000 * Abs(n.m[k]) > NUMBA_GOOD_ENOUGH_THRESH * n.den)

\* _numba_refine, lines 312-330, the neighbourhood having a sum that is not 0
NumbaFeature ==
    /\ pc = "nb_feature"
    /\ estimate_mass(image, radius, coords[feat]) # 0
    /\ rect' = coords[feat]
    /\ coord' = ToFixed(coords[feat])
    /\ nb' = Neighbourhood(image, radius, coords[feat])
    /\ cm_i' = Plus(coord', OffCenter(nb'))
    /\ allow_moves' = TRUE
    /\ iteration' = 0
    /\ pc' = "nb_loop"
    /\ UNCHANGED <<dedupVars, callVars, setupVars, coords, warned, ret, feat>>

\* lines 312-339 when the neighbourhood sums to 0: cm_n[dim] /= mass_ divides
\* 0.0 by 0.0. The jitted function raises ZeroDivisionError; run as plain
\* Python on numpy scalars the quotient is nan, no comparison with a threshold
\* is true, the for-else breaks at the first check and cm_i is nan.
NumbaZeroMass ==
    /\ pc = "nb_feature"
    /\ estimate_mass(image, radius, coords[feat]) = 0
    /\ \/ /\ ret' = Raised("ZeroDivisionError")
          /\ pc' = "done"
          /\ UNCHANGED featVars
       \/ /\ rect' = coords[feat]
          /\ coord' = ToFixed(coords[feat])
          /\ nb' = Neighbourhood(image, radius, coords[feat])
          /\ cm_i' = <<NaN, NaN>>
          /\ allow_moves' = TRUE
          /\ iteration' = 0
          /\ pc' = "nb_store"
          /\ UNCHANGED <<ret, feat>>
    /\ UNCHANGED <<dedupVars, callVars, setupVars, coords, warned>>

\* lines 335-339: the for-else break
NumbaAccurate ==
    /\ pc = "nb_loop"
    /\ iteration < arg.max_iterations
    /\ NumbaGoodEnough(nb)
    /\ pc' = "nb_store"
    /\ UNCHANGED <<dedupVars, callVars, setupVars, coords, warned, ret, featVars>>

\* lines 342-367 and 381-394: do_move
NumbaMove ==
    /\ pc = "nb_loop"
    /\ iteration < arg.max_iterations
    /\ ~NumbaGoodEnough(nb)
    /\ allow_moves /\ OffByMoreThanShift(nb)
    /\ rect' = NumbaWalked(rect, nb, radius, Shape)
    /\ nb' = Neighbourhood(image, radius, rect')
    /\ coord' = ToFixed(rect')
    /\ cm_i' = Plus(coord', OffCenter(nb'))
    /\ iteration' = iteration + 1
    /\ UNCHANGED <<dedupVars, callVars, setupVars, coords, warned, ret>>
    /\ UNCHANGED <<pc, feat, allow_moves>>

\* lines 370-371: else: break, the interpolation is not implemented
NumbaNoInterpolation ==
    /\ pc = "nb_loop"
    /\ iteration < arg.max_iterations
    /\ ~NumbaGoodEnough(nb)
    /\ ~(allow_moves /\ OffByMoreThanShift(nb))
    /\ pc' = "nb_store"
    /\ UNCHANGED <<dedupVars, callVars, setupVars, coords, warned, ret, featVars>>

\* line 331: range(max_iterations) is exhausted
NumbaIterationsDone ==
    /\ pc = "nb_loop"
    /\ iteration >= arg.max_iterations
    /\ pc' = "nb_store"
    /\ UNCHANGED <<dedupVars, callVars, setupVars, coords, warned, ret, featVars>>

\* lines 396-424: results[feat] from cm_i and the square at the last anchor
NumbaStore ==
    /\ pc = "nb_store"
    /\ LET n == Neighbourhood(image, radius, rect)
       IN  results' = Append(results,
                        IF characterize
                        THEN Row(feat, cm_i, n, NumbaSignal(raw_image, image, radius, rect))
                        ELSE Row(feat, cm_i, [n EXCEPT !.r2 = 0], 0))
    /\ IF feat = Len(coords)
       THEN pc' = "dedup_check" /\ input' = results' /\ feat' = feat
       ELSE pc' = "nb_feature" /\ input' = input /\ feat' = feat + 1
    /\ UNCHANGED <<separation, callVars, setupVars, coords, warned, ret>>
    /\ UNCHANGED <<coord, rect, nb, allow_moves, iteration, cm_i>>

(***************************************************************************)
(* locate(), lines 614-658: post-filter, topn, the returned table.         *)
(***************************************************************************)
\* results has 6 columns when characterizing, else position and mass only
ResultColumns(char) == IF char THEN 6 ELSE 3

\* exact_mass > minmass, and exact_size < maxsize if maxsize is set
Passes(row) ==
    /\ row.mass > arg.minmass
    /\ arg.maxsize # None => SizeBelow(row.r2, row.mass, arg.maxsize)

\* lines 618-633: filter on the exact mass and size; indexing the size column
\* of a results array that has none raises IndexError
LocatePostfilter ==
    /\ pc = "refine_return"
    /\ IF /\ arg.filter_after
          /\ arg.maxsize # None
          /\ ~(SIZE_COLUMN_INDEX < ResultColumns(characterize))
       THEN /\ ret' = Raised("IndexError")
            /\ pc' = "done"
            /\ UNCHANGED <<results, warned>>
       ELSE LET kept == IF arg.filter_after THEN SelectSeq(results, Passes) ELSE results
            IN  /\ results' = kept
                /\ IF Len(kept) = 0
                   THEN /\ warned' = Append(warned, FilterWarning)
                        /\ ret' = EmptyTable(characterize)
                        /\ pc' = "done"
                   ELSE /\ UNCHANGED <<warned, ret>>
                        /\ pc' = "topn"
    /\ UNCHANGED <<separation, input, callVars, setupVars, coords, featVars>>

\* np.argsort(exact_mass): ascending, rows of equal mass in their input order
\* (arrays this short are sorted by insertion)
RECURSIVE Insert(_, _)
Insert(sorted, row) ==
    IF sorted = <<>>
    THEN <<row>>
    ELSE IF sorted[Len(sorted)].mass <= row.mass
         THEN Append(sorted, row)
         ELSE Append(Insert(SubSeq(sorted, 1, Len(sorted) - 1), row), sorted[Len(sorted)])

RECURSIVE SortedByMass(_)
SortedByMass(rows) ==
    IF rows = <<>>
    THEN <<>>
    ELSE Insert(SortedByMass(SubSeq(rows, 1, Len(rows) - 1)), rows[Len(rows)])

\* np.argmax(exact_mass): the first row of the largest mass
Argmax(rows) ==
    CHOOSE i \in 1..Len(rows) :
        /\ \A j \in 1..Len(rows) : rows[j].mass <= rows[i].mass
        /\ \A j \in 1..(i - 1) : rows[j].mass < rows[i].mass

\* a[-n:]: the last n elements, and every element when n is 0
LastSlice(a, n) == IF n = 0 THEN a ELSE SubSeq(a, Len(a) - n + 1, Len(a))

\* lines 635-641
TopN(rows, topn) ==
    IF topn # None /\ Len(rows) > topn
    THEN IF topn = 1
         THEN <<rows[Argmax(rows)]>>
         ELSE LastSlice(SortedByMass(rows), topn)
    ELSE rows

\* lines 643-658: the table, with 'ep' joined on when characterizing and the
\* 'frame' column when the image has a frame number
LocateSelect ==
    /\ pc = "topn"
    /\ ret' = [kind |-> "table",
               columns |-> AllColumns(characterize)
                             \o (IF arg.frame_no # None THEN <<"frame">> ELSE <<>>),
               rows |-> TopN(results, arg.topn)]
    /\ pc' = "done"
    /\ UNCHANGED <<dedupVars, callVars, setupVars, coords, warned, featVars>>

\* locate(raw_image, **arg) is called
InitLocate ==
    /\ pc = "locate"
    /\ raw_image \in Images
    /\ arg \in Calls
    /\ results = <<>> /\ separation = <<>> /\ input = <<>>
    /\ SetupIdle
    /\ coords = <<>> /\ warned = <<>> /\ ret = NotReturned
    /\ FeatIdle

NextLocate ==
    \/ LocateSetup
    \/ LocateMaxima
    \/ LocatePrefilter
    \/ RefineDispatch
    \/ PyFeature
    \/ PyAccurate
    \/ PyMove
    \/ PyInterpolate
    \/ PyIterationsDone
    \/ PyStore
    \/ NumbaFeature
    \/ NumbaAccurate
    \/ NumbaMove
    \/ NumbaNoInterpolation
    \/ NumbaIterationsDone
    \/ NumbaStore
    \/ DedupGuard
    \/ DedupPass
    \/ DedupBreak
    \/ LocatePostfilter
    \/ LocateSelect

SpecLocate == InitLocate /\ [][NextLocate]_vars

(***************************************************************************)
(* refine() called directly on an image and integer candidates.            *)
(***************************************************************************)
\* the images of the direct calls
RefineImages == {img \in Images : Cardinality({p \in Pixels : img[p] > 1}) <= MaxRefinePoints}

\* the candidates: one, or two next to each other, on the row of the points,
\* far enough from the edges for the square around them to lie in the image
RefineCoords(r) ==
    LET cols == r[2]..(ImageCols - 1 - r[2])
        row == CHOOSE y \in DrawRows : TRUE
    IN  {<<<<row, c>>>> : c \in cols}
        \cup {<<<<row, c>>, <<row, c + 1>>>> : c \in cols \ {ImageCols - 1 - r[2]}}

InitRefine ==
    /\ pc = "refine"
    /\ image \in RefineImages
    /\ raw_image \in {image, Invert(image)}
    /\ image_dtype = "uint8"
    /\ arg \in {c \in Calls : /\ c.diameter \in {<<3, 3>>, <<5, 5>>}
                             /\ c.engine \in {"python", "numba"}
                             /\ \A f \in DOMAIN c \ {"diameter", "engine", "characterize",
                                                      "max_iterations"} :
                                    c[f] = BaseCall[f]}
    /\ radius = <<arg.diameter[1] \div 2, arg.diameter[2] \div 2>>
    /\ margin = radius
    /\ characterize = arg.characterize
    /\ coords \in RefineCoords(radius)
    /\ separation \in {<<0, 0>>, <<2, 2>>}
    /\ results = <<>> /\ input = <<>>
    /\ warned = <<>> /\ ret = NotReturned
    /\ FeatIdle

NextRefine ==
    \/ RefineDispatch
    \/ PyFeature
    \/ PyAccurate
    \/ PyMove
    \/ PyInterpolate
    \/ PyIterationsDone
    \/ PyStore
    \/ NumbaFeature
    \/ NumbaZeroMass
    \/ NumbaAccurate
    \/ NumbaMove
    \/ NumbaNoInterpolation
    \/ NumbaIterationsDone
    \/ NumbaStore
    \/ DedupGuard
    \/ DedupPass
    \/ DedupBreak

SpecRefine == InitRefine /\ [][NextRefine]_vars

(***************************************************************************)
(* The walk step of the two engines on images of any size.                 *)
(***************************************************************************)
\* the sizes of an image axis: small, and around the range of an int16
WalkSizes == {ImageCols, 100, 40000, 65543}

\* off_center in tenths of a pixel: beyond SHIFT_THRESH, at it, and zero
WalkOffsets == {-10, -SHIFT_THRESH, 0, SHIFT_THRESH, 10}

\* the anchors next to the two ends of an axis of size n
WalkAnchors(r, n) == {r, r + 1, n - r - 2, n - r - 1}

InitWalk ==
    /\ pc = "walk"
    /\ arg \in [engine : {"python", "numba"}, shape : WalkSizes \X WalkSizes]
    /\ radius \in {<<1, 1>>, <<2, 2>>}
    /\ rect \in WalkAnchors(radius[1], arg.shape[1]) \X WalkAnchors(radius[2], arg.shape[2])
    /\ \E my \in WalkOffsets, mx \in WalkOffsets :
          /\ nb = [NoNeighbourhood EXCEPT !.mass = 1, !.m = <<my, mx>>, !.den = 10]
          /\ OffByMoreThanShift(nb)
    /\ allow_moves = TRUE /\ iteration = 0
    /\ feat = 0 /\ coord = ToFixed(rect) /\ cm_i = <<0, 0>>
    /\ results = <<>> /\ separation = <<>> /\ input = <<>>
    /\ raw_image = <<>>
    /\ image = <<>> /\ image_dtype = "unset" /\ margin = <<>> /\ characterize = FALSE
    /\ coords = <<>> /\ warned = <<>> /\ ret = NotReturned

\* the walk branch of an iteration: the new anchor of the slice
WalkStep ==
    /\ pc = "walk"
    /\ rect' = IF arg.engine = "python"
               THEN Walked(rect, nb, radius, arg.shape)
               ELSE NumbaWalked(rect, nb, radius, arg.shape)
    /\ pc' = "walked"
    /\ UNCHANGED <<dedupVars, callVars, setupVars, coords, warned, ret>>
    /\ UNCHANGED <<feat, coord, nb, allow_moves, iteration, cm_i>>

NextWalk == WalkStep

SpecWalk == InitWalk /\ [][NextWalk]_vars

(***************************************************************************)
(* local_maxima() called directly, with its own radius, percentile, margin.*)
(***************************************************************************)
MaximaRadii == {<<1, 1>>, <<2, 2>>, <<1, 2>>}
MaximaMargins == {<<0, 0>>, <<1, 1>>, <<2, 2>>, <<1, 3>>}
Percentiles == {0, 50, DefaultPercentile, 100}

InitMaxima ==
    /\ pc = "local_maxima"
    /\ raw_image \in Images
    /\ image = raw_image
    /\ radius \in MaximaRadii
    /\ margin \in MaximaMargins
    /\ arg \in {[BaseCall EXCEPT !.percentile = p, !.dtype = t] :
                    p \in Percentiles, t \in IntegerTypes \cup FloatTypes}
    /\ image_dtype = arg.dtype
    /\ characterize = TRUE
    /\ results = <<>> /\ separation = <<>> /\ input = <<>>
    /\ coords = <<>> /\ warned = <<>> /\ ret = NotReturned
    /\ FeatIdle

NextMaxima == LocateMaxima

SpecMaxima == InitMaxima /\ [][NextMaxima]_vars

(***************************************************************************)
(* Claims about locate() and local_maxima().                               *)
(***************************************************************************)
\* the table locate() has returned
Returned == pc = "done" /\ ret.kind = "table"

\* m_k <= c <= shape_k - m_k - 1 for a fixed-point coordinate c on axis k
OutsideMargin(c, k) ==
    margin[k] * PosScale <= c /\ c <= (Shape[k] - margin[k] - 1) * PosScale

IsLocalMaximum(x) ==
    /\ \A o \in Range(SquareOffsets(radius)) :
          (InMask(radius, o) /\ Shifted(x, o) \in Pixels) => image[Shifted(x, o)] <= image[x]
    /\ image[x] >= 0
    /\ 100 * image[x] > percentile_threshold(image, arg.percentile)
    /\ \A k \in 1..2 : margin[k] <= x[k] /\ x[k] <= Shape[k] - margin[k] - 1

\* C6: on an image that is not all zero, local_maxima returns exactly the
\* coordinates x with image[x] equal to the dilation, above the percentile
\* threshold and m_k <= x_k <= shape_k - m_k - 1: none more, none less,
\* none twice.
C6_StepExactSet ==
    (pc = "local_maxima" /\ NotBlack(image) # {} /\ image_dtype \in IntegerTypes) =>
        /\ Range(coords') = {x \in Pixels : IsLocalMaximum(x)}
        /\ \A i, j \in DOMAIN coords' : coords'[i] = coords'[j] => i = j

\* C6: every call of local_maxima returns exactly the specified set
C6_ExactSet == [][C6_StepExactSet]_vars

\* C6 witness: local_maxima returned some maxima and left out a pixel that
\* passes the dilation and the threshold but lies in the margin
C6_Witness ==
    /\ pc = "prefilter"
    /\ coords # <<>>
    /\ \E x \in Pixels :
          /\ x \notin Range(coords)
          /\ IsMaximum(image, radius, percentile_threshold(image, arg.percentile), x)

Diagnostics ==
    {BlackWarning, NoMaximaWarning, MarginWarning, PrefilterWarning, FilterWarning}

\* C7: whenever locate() returns an empty table, it has emitted one of the
\* warnings about the empty result before; where the candidates run out
\* (no maxima, none left by a filter) it returns and raises nothing.
C7_EmptyIsWarned ==
    /\ (Returned /\ ret.rows = <<>>) => Range(warned) \cap Diagnostics # {}
    /\ (pc = "done" /\ ret.kind = "raise") => (coords # <<>> \/ image = <<>>)

\* C7 witness: the post-filter left no feature and locate() returned the
\* empty table
C7_Witness ==
    /\ Returned /\ ret.rows = <<>>
    /\ input # <<>>
    /\ FilterWarning \in Range(warned)

\* C8: a table returned for an image with a frame number has a 'frame'
\* column, and an empty table has the columns of a non-empty one for the
\* same parameters.
C8_Schema ==
    Returned =>
        /\ arg.frame_no # None => "frame" \in Range(ret.columns)
        /\ ret.columns = AllColumns(characterize)
                           \o (IF arg.frame_no # None THEN <<"frame">> ELSE <<>>)

\* size < maxsize for a row of a table
SizeColumnBelow(row, maxsize) == SizeBelow(row.r2, row.mass, maxsize)

\* C9: with filter_after, locate() applies the post-filter for every
\* combination of the other parameters: it does not fail in it, and every
\* feature of the table it returns has mass > minmass and, when maxsize is
\* set, size < maxsize.
C9_PostFilter ==
    (pc = "done" /\ arg.filter_after) =>
        /\ ~(ret.kind = "raise" /\ ret.exc = "IndexError")
        /\ ret.kind = "table" =>
              \A i \in DOMAIN ret.rows :
                  /\ ret.rows[i].mass > arg.minmass
                  /\ arg.maxsize # None => SizeColumnBelow(ret.rows[i], arg.maxsize)

Min2(a, b) == IF a <= b THEN a ELSE b

\* C10: with topn set and n features left by the post-filter, locate()
\* returns min(topn, n) of them, each at least as bright as every feature
\* not returned, and of two equally bright features the earlier one first.
C10_TopN ==
    (Returned /\ results # <<>> /\ arg.topn # None) =>
        /\ Len(ret.rows) = Min2(arg.topn, Len(results))
        /\ Range(ret.rows) \subseteq Range(results)
        /\ \A r \in Range(ret.rows) : \A q \in Range(results) \ Range(ret.rows) :
              r.mass > q.mass \/ (r.mass = q.mass /\ r.id < q.id)

(***************************************************************************)
(* Claims about the arguments, the image type and the refiner.             *)
(***************************************************************************)
\* C11: a call of locate() with a diameter that has an even component on
\* some axis ends in a ValueError whatever the image is, and nothing has
\* been prepared, detected or warned by then.
C11_EvenDiameterRaises ==
    (pc # "locate" /\ \E k \in 1..2 : arg.diameter[k] % 2 = 0) =>
        /\ pc = "done"
        /\ ret = Raised("ValueError")
        /\ image = <<>> /\ coords = <<>> /\ warned = <<>>

\* C11 witness: the ValueError for a diameter that is even on the second
\* axis only, on a black image (which would otherwise end in a warning)
C11_Witness ==
    /\ pc = "done"
    /\ ret = Raised("ValueError")
    /\ arg.diameter = <<3, 4>>
    /\ NotBlack(raw_image) = {}
\* an engine request that refine() rejects: a name it does not know, or the
\* numba engine with an anisotropic radius
UnsupportedEngine ==
    \/ arg.engine \notin {"python", "numba"}
    \/ arg.engine = "numba" /\ arg.diameter[1] # arg.diameter[2]

\* C12: a call of locate() with an unknown engine, or with the numba engine
\* and an anisotropic radius, ends in an error for every image, also for the
\* images that leave no candidate.
C12_UnsupportedEngineRaises ==
    (pc = "done" /\ UnsupportedEngine) => ret.kind = "raise"
\* C13: local_maxima() on an image that is not integer-typed raises
\* TypeError, also when all its pixels are zero.
C13_StepTypeError ==
    (pc = "local_maxima" /\ image_dtype \notin IntegerTypes) =>
        ret' = Raised("TypeError")

C13_NonIntegerRaises == [][C13_StepTypeError]_vars
\* C14: when invert is true, locate() works on the inverted image, here with
\* preprocess=False: the image handed to the detector and the refiner is the
\* rescaled complement of the raw image.
C14_InvertedImage ==
    (arg.invert /\ image_dtype # "unset") =>
        image = ScaleToGamut(Invert(raw_image))
\* the brightest pixel of an image
PeakPixel(img) == CHOOSE x \in Pixels : \A p \in Pixels : img[p] <= img[x]

\* the image is uniform except for one brighter pixel
IsolatedPeak(img) ==
    LET x0 == PeakPixel(img)
        other == CHOOSE p \in Pixels : p # x0
    IN  \A p \in Pixels \ {x0} : img[p] = img[other] /\ img[p] < img[x0]

\* the case of C15, once locate() has prepared the image: an isolated peak at
\* least margin away from every edge, its neighbourhood mass above minmass
IsolatedPeakCall ==
    /\ image_dtype # "unset"
    /\ arg.maxsize = None /\ ~UnsupportedEngine
    /\ IsolatedPeak(raw_image)
    /\ \A k \in 1..2 : /\ margin[k] <= PeakPixel(raw_image)[k]
                       /\ PeakPixel(raw_image)[k] <= Shape[k] - margin[k] - 1
    /\ estimate_mass(image, radius, PeakPixel(raw_image)) > arg.minmass

\* what C15 promises of such a call: one candidate, the refiner converged at
\* its first check with zero offset and without iterating, one feature at x0
OneFeatureAtPeak ==
    LET x0 == PeakPixel(raw_image)
    IN  /\ pc \notin {"locate", "local_maxima"} => coords = <<x0>>
        /\ iteration = 0
        /\ pc \in {"py_store", "nb_store"} =>
              nb.m = <<0, 0>> /\ cm_i = ToFixed(x0) /\ rect = x0
        /\ pc = "done" =>
              /\ ret.kind = "table"
              /\ Len(ret.rows) = 1
              /\ ret.rows[1].y = x0[1] * PosScale
              /\ ret.rows[1].x = x0[2] * PosScale

\* C15: on an integer image that is uniform except for one brighter pixel x0
\* outside the margins, with minmass below the mass of the peak, locate() finds
\* one candidate, refines it without a walk or an interpolation and returns
\* one feature at x0.
C15_IsolatedPeak == IsolatedPeakCall => OneFeatureAtPeak
\* the statement of C15 restricted to a background that is not black (holds)
C15_IsolatedPeakOnBackground ==
    (IsolatedPeakCall /\ \A p \in Pixels : raw_image[p] # 0) => OneFeatureAtPeak
\* the positions of a call inside the refinement loops of the two engines
RefinerPcs ==
    {"py_feature", "py_loop", "py_store", "nb_feature", "nb_loop", "nb_store"}

\* what is left of the loops: the features to come, each with its
\* initial neighbourhood, its iterations and the storing of its row
Variant ==
    LET width == arg.max_iterations + 3
        stage == IF pc \in {"py_feature", "nb_feature"} THEN arg.max_iterations + 2
                 ELSE IF pc \in {"py_loop", "nb_loop"}
                      THEN arg.max_iterations - iteration + 1
                      ELSE 0
    IN  (Len(coords) - feat) * width + stage

\* a step of the refiner either stays in the loops and lowers the variant,
\* or leaves them with one row for every candidate
RefinerStep ==
    pc \in RefinerPcs =>
        \/ pc' \in RefinerPcs /\ Variant' < Variant
        \/ pc' = "dedup_check" /\ Len(results') = Len(coords)

ZeroMassAt(k) == estimate_mass(image, radius, coords[k]) = 0

\* what C17 promises of the refiner on its zero-mass candidates
ZeroMassHandled ==
    /\ (pc \in {"py_loop", "py_store", "nb_loop", "nb_store", "done"}
          /\ ZeroMassAt(feat)) =>
            /\ ret.kind # "raise"
            /\ iteration = 0 /\ rect = coords[feat]
            /\ nb.m = <<0, 0>>
    /\ pc = "dedup_check" =>
          \A k \in DOMAIN results :
              ZeroMassAt(k) => /\ results[k].y = coords[k][1] * PosScale
                               /\ results[k].x = coords[k][2] * PosScale
                               /\ results[k].mass = 0

\* C17: when the masked neighbourhood of a candidate x sums to zero, the
\* refiner of either engine raises nothing, makes no walk and no
\* interpolation, and reports pos = x and mass = 0.
C17_ZeroMass == ZeroMassHandled

\* the statement of C17 for the python engine alone (holds)
C17_ZeroMassPython == arg.engine = "python" => ZeroMassHandled
\* the largest raw pixel inside the mask placed at an anchor
PeakRaw(a) ==
    LET inside == {Shifted(a, MaskOffsets(radius)[k]) : k \in DOMAIN MaskOffsets(radius)}
    IN  CHOOSE v \in {raw_image[p] : p \in inside} : \A p \in inside : raw_image[p] <= v

\* the row stored for a characterized feature has the peak raw pixel at the
\* final anchor as its signal
SignalIsPeakRaw ==
    (pc \in {"py_store", "nb_store"} /\ characterize) =>
        results'[Len(results')].signal = PeakRaw(rect)

\* C18: in either engine, and whether or not the raw and the processed image
\* differ, the signal of a feature is the largest raw pixel inside the mask
\* at the feature's final integer anchor.
C18_SignalIsPeakRaw == [][SignalIsPeakRaw]_vars

\* the statement of C18 for the python engine alone (holds)
C18_SignalIsPeakRawPython == [][arg.engine = "python" => SignalIsPeakRaw]_vars
\* once moves are disallowed, a step of the python loop leaves the anchor of
\* the neighbourhood slice where it is and moves stay disallowed
NoWalkAfterInterpolation ==
    (pc = "py_loop" /\ ~allow_moves) =>
        /\ rect' = rect
        /\ pc' = "py_loop" => ~allow_moves'

\* C19: within the refinement of one feature, once an interpolation step has
\* been taken (allow_moves is false) no whole-pixel walk is taken in a later
\* iteration: the integer anchor of the slice never changes again.
C19_NoWalkAfterInterpolation == [][NoWalkAfterInterpolation]_vars

\* after a walk and an interpolation the offset is beyond SHIFT_THRESH again
\* and an iteration is left: the next step interpolates, it does not walk
C19_Witness ==
    /\ pc = "py_loop" /\ ~allow_moves
    /\ rect # coords[feat]
    /\ OffByMoreThanShift(nb) /\ ~GoodEnough(nb)
    /\ iteration < arg.max_iterations
\* the anchor a walk must give on axis k: one pixel in the direction of an
\* offset beyond 0.6, then clamped to r_k <= x_k <= shape_k - r_k - 1
WalkTarget(k) ==
    LET delta10 == 10 * nb.m[k]
        moved == IF delta10 > SHIFT_THRESH * nb.den THEN rect[k] + 1
                 ELSE IF delta10 < -(SHIFT_THRESH * nb.den) THEN rect[k] - 1
                 ELSE rect[k]
    IN  Min2(Max2(moved, radius[k]), arg.shape[k] - radius[k] - 1)

WalkAsClaimed ==
    pc = "walk" =>
        \A k \in 1..2 :
            /\ rect'[k] = WalkTarget(k)
            /\ radius[k] <= rect'[k] /\ rect'[k] <= arg.shape[k] - radius[k] - 1

\* C20: a walk iteration of either engine moves each axis of the anchor by
\* +1 iff delta_k > 0.6, by -1 iff delta_k < -0.6, else not at all, and clamps
\* the new anchor to r_k <= x_k <= shape_k - r_k - 1, for an image of any size.
C20_WalkStep == [][WalkAsClaimed]_vars

\* the statement of C20 for the python engine alone (holds)
C20_WalkStepPython == [][arg.engine = "python" => WalkAsClaimed]_vars

\* the statement of C20 for images whose sizes an int16 holds (holds)
C20_WalkStepSmallImage ==
    [][(\A k \in 1..2 : arg.shape[k] < 32768) => WalkAsClaimed]_vars

\* the last part of C20: after a walk of either engine the neighbourhood and
\* the centroid are those of the image at the new anchor (holds)
C20_Recomputed ==
    [][(pc \in {"py_loop", "nb_loop"} /\ iteration' = iteration + 1 /\ allow_moves') =>
            /\ nb' = Neighbourhood(image, radius, rect')
            /\ cm_i' = Plus(ToFixed(rect'), OffCenter(nb'))]_vars
(***************************************************************************)
(* Claims C21-C28                                                          *)
(***************************************************************************)
\* one turn of the while loop: with a close pair the pass removes at least
\* one row, adds none and stays in the loop; without one the loop is left
\* with the rows as they are
C21_StepShrinks ==
    pc = "dedup_loop" =>
        IF query_pairs(results, separation) # {}
        THEN /\ pc' = "dedup_loop"
             /\ Len(results') < Len(results)
             /\ Ids(results') \subseteq Ids(results)
        ELSE /\ pc' = "refine_return"
             /\ results' = results

\* C21: the duplicate-elimination loop terminates: every pass that finds a
\* close pair removes at least one feature, the feature set never grows,
\* the loop exits exactly when no close pair remains, and until refine()
\* returns a step is always possible (the number of rows is the variant).
C21_DedupTerminates ==
    /\ [][C21_StepShrinks]_vars
    /\ [](Len(results) <= Len(input) /\ Ids(results) \subseteq Ids(input))
    /\ [](pc # "refine_return" => ENABLED NextDedup)
    /\ [](DedupReturned => query_pairs(results, separation) = {})

\* C21 witness: a pass has removed rows and the loop is about to exit
C21_Witness ==
    /\ pc = "dedup_loop"
    /\ Len(results) < Len(input)
    /\ query_pairs(results, separation) = {}
\* the pairs of rows at a separation-scaled distance strictly below 1
StrictlyCloserPairs(rows, sep) ==
    {pr \in (1..Len(rows)) \X (1..Len(rows)) :
        /\ pr[1] < pr[2]
        /\ SepDist2Num(rows[pr[1]], rows[pr[2]], sep)
               < SepDist2Den(sep)}

\* rows i and j of the input are at a scaled distance of exactly 1 and no
\* other row is as close as that to either
ExactlySeparated(i, j) ==
    /\ i # j
    /\ SepDist2Num(input[i], input[j], separation)
           = SepDist2Den(separation)
    /\ \A k \in DOMAIN input \ {i, j} :
           /\ ~WithinSeparation(input[i], input[k], separation)
           /\ ~WithinSeparation(input[j], input[k], separation)

\* C22: the duplicates of a pass are exactly the pairs at a scaled distance
\* strictly below 1, and two features at a scaled distance of exactly 1 are
\* both returned.
C22_StrictlyBelowOne ==
    /\ pc = "dedup_loop" =>
           query_pairs(results, separation) = StrictlyCloserPairs(results, separation)
    /\ DedupReturned =>
           \A i, j \in DOMAIN input :
               ExactlySeparated(i, j) => {input[i].id, input[j].id} \subseteq Ids(results)
\* m is the largest of the numbers in S
LargestOf(m, S) == m \in S /\ \A v \in S : v <= m

\* locate() has accepted the diameter and derived its parameters
ParametersDerived == pc = "local_maxima"

\* the values of separation and smoothing_size the call works with
SeparationUsed ==
    IF arg.separation = <<>>
    THEN [k \in 1..2 |-> arg.diameter[k] + 1]
    ELSE arg.separation

SmoothingSizeUsed ==
    IF arg.smoothing_size = <<>> THEN arg.diameter ELSE arg.smoothing_size

\* radius, separation and margin are derived as the claim says
DerivedAsClaimed ==
    /\ radius = [k \in 1..2 |-> arg.diameter[k] \div 2]
    /\ separation = SeparationUsed
    /\ \A k \in 1..2 :
           LargestOf(margin[k], {radius[k], (separation[k] \div 2) - 1,
                                 SmoothingSizeUsed[k] \div 2})

\* the radius is a vector of positive integers, diameter = 2 * radius + 1
RadiusPositive ==
    \A k \in 1..2 : radius[k] > 0 /\ arg.diameter[k] = 2 * radius[k] + 1

\* C23: for every accepted diameter, radius_k = diameter_k // 2, separation
\* defaults to diameter_k + 1, smoothing_size to diameter_k, the margin is
\* max(radius_k, separation_k // 2 - 1, smoothing_size_k // 2), and the
\* radius is positive with diameter_k = 2 * radius_k + 1.
C23_Derivation == ParametersDerived => DerivedAsClaimed /\ RadiusPositive

\* the derivation itself holds for every accepted diameter, and the radius
\* is positive when no axis of the diameter is 1
C23_DerivationFromThree ==
    ParametersDerived =>
        /\ DerivedAsClaimed
        /\ (\A k \in 1..2 : arg.diameter[k] >= 3) => RadiusPositive
\* a step of refine() leaves the arrays it was called with as they are
InputsUnchanged ==
    /\ raw_image' = raw_image
    /\ image' = image
    /\ coords' = coords

\* C24: a call of refine() (either engine, raw image equal to the image or
\* its inverse, with whole-pixel walks and duplicate elimination) does not
\* modify the raw_image, image and coords it was called with.
C24_InputsUnchanged == [][InputsUnchanged]_vars

\* C24 witness: refine() was called with a raw image that is not the
\* processed one and the square of a feature has walked off its candidate
C24_Witness ==
    /\ pc \in {"py_loop", "nb_loop"}
    /\ raw_image # image
    /\ rect # coords[feat]

\* locate() leaves the image it is called with as it is, invert or not
C24_LocateLeavesImage == [][raw_image' = raw_image /\ arg' = arg]_vars
\* the slice [a_k - r_k, a_k + r_k] lies inside an image of shape shp
SliceInside(a, r, shp) ==
    \A k \in 1..2 : 0 <= a[k] - r[k] /\ a[k] + r[k] <= shp[k] - 1

\* C25: after every walk step of either engine the neighbourhood slice lies
\* entirely inside the image on every axis, whatever the size of the image.
C25_InBounds == pc = "walked" => SliceInside(rect, radius, arg.shape)

\* the walk part of C25 for images whose sizes an int16 holds (holds)
C25_InBoundsSmallImage ==
    (pc = "walked" /\ \A k \in 1..2 : arg.shape[k] < 32768)
        => SliceInside(rect, radius, arg.shape)

\* the rest of C25 on the calls of locate(): the candidates handed to the
\* pre-filter and the refiner, and the anchor during refinement (holds)
C25_InBoundsLocate ==
    /\ pc \in {"prefilter", "refine"} =>
          \A i \in DOMAIN coords : SliceInside(coords[i], radius, Shape)
    /\ pc \in {"py_loop", "py_store", "nb_loop", "nb_store"} =>
          SliceInside(rect, radius, Shape)
\* row p of the input is covered: a returned feature lies within separation
\* of it (a returned feature covers itself)
Covered(p) ==
    \E i \in DOMAIN results : WithinSeparation(p, results[i], separation)

\* C26: every feature that duplicate elimination removes lies within
\* separation of a feature that refine() returns; none is removed solely
\* because of a neighbour that is itself removed.
C26_DroppedIsCovered ==
    DedupReturned => \A k \in DOMAIN input : Covered(input[k])

\* what the code does ensure: a removed feature lies within separation of
\* an input feature that is at least as bright (holds)
C26_DroppedHasBrighterNeighbour ==
    DedupReturned =>
        \A k \in DOMAIN input :
            input[k].id \notin Ids(results) =>
                \E n \in DOMAIN input :
                    /\ n # k
                    /\ WithinSeparation(input[k], input[n], separation)
                    /\ input[n].mass >= input[k].mass
\* refine() is about to return its results
RefineReturns == pc = "refine_return"

\* no two features of the input are within separation of each other
InputSeparated ==
    \A i, j \in DOMAIN input :
        i # j => ~WithinSeparation(input[i], input[j], separation)

\* the returned rows are rows of the input, unchanged and in input order
InInputOrder ==
    /\ \A i \in DOMAIN results : results[i] = input[results[i].id]
    /\ \A i, j \in DOMAIN results : i < j => results[i].id < results[j].id

SameWalkStep ==
    /\ GoodEnough(nb) = NumbaGoodEnough(nb)
    /\ rect' = Walked(rect, nb, radius, arg.shape)
    /\ rect' = NumbaWalked(rect, nb, radius, arg.shape)

\* C28: on a 2D integer image with an isotropic radius, from the same anchor
\* with an offset beyond 0.6 the python and the numba engine walk to the
\* same next anchor, so that they visit the same anchors and stop walking
\* at the same one.
C28_SameWalk == [][pc = "walk" => SameWalkStep]_vars

\* C28 for images whose sizes an int16 holds (holds)
C28_SameWalkSmallImage ==
    [][(pc = "walk" /\ \A k \in 1..2 : arg.shape[k] < 32768) => SameWalkStep]_vars

\* the anchor the walk of _refine has reached from candidate a after at
\* most k iterations
RECURSIVE PyWalkAnchor(_, _)
PyWalkAnchor(a, k) ==
    IF k = 0
    THEN a
    ELSE LET n == Neighbourhood(image, radius, a)
         IN  IF GoodEnough(n) \/ ~OffByMoreThanShift(n)
             THEN a
             ELSE PyWalkAnchor(Walked(a, n, radius, Shape), k - 1)

\* C28 on the direct calls of refine(), small images: whichever engine runs,
\* the anchor of the feature in work is the one the walk of _refine reaches
\* from its candidate in the iterations done so far (holds)
C28_AnchorsFollowWalk ==
    pc \in {"py_loop", "py_store", "nb_loop", "nb_store"} =>
        rect = PyWalkAnchor(coords[feat], iteration)
====
